---- MODULE Spec2Model ----
(***************************************************************************)
(* Model of scripts/clean_sim_results.py: prompt, tree walk over           *)
(* main_folder deleting files in every testcase* directory, then the flat  *)
(* cleanup of work_dir.                                                    *)
(*                                                                         *)
(* A path is the sequence of its components; a file or directory name is   *)
(* a string. The filesystem holds directories and regular files only (no   *)
(* symbolic links, no special files), every directory can be listed, and   *)
(* nothing but the script changes it while the script runs. os.remove of   *)
(* a regular file either removes it or raises OSError; which of the two    *)
(* happens is the environment's choice at each call.                       *)
(***************************************************************************)
EXTENDS Integers, Sequences, FiniteSets, TLC

VARIABLES
    dirs,                 \* the directories that exist (paths)
    files,                \* the regular files that exist (paths)
    pc,                   \* position of the script
    delete_matlab_files,  \* line 34: the answer read from input()
    stack,                \* os.walk: directories still to be visited
    dirpath,              \* line 35: directory of the current os.walk triple
    matched,              \* line 36: names of fnmatch.filter still to iterate
    full_dir_path,        \* line 37: the matched directory being processed
    listing,              \* names of the current os.listdir not yet iterated
    out,                  \* the lines printed so far, in order
    status,               \* "running", "ok", or the uncaught exception's class
    prompts,              \* how many times input() has been called
    files0,               \* the regular files present when the run started
    run,                  \* "first" or "second" invocation of the script
    first                 \* what the first invocation left (second run only)

vars == <<dirs, files, pc, delete_matlab_files, stack, dirpath, matched,
          full_dir_path, listing, out, status, prompts, files0, run, first>>

----------------------------------------------------------------------------
(* Bounds and input universes *)

MaxFiles == 2

main_folder == <<"..", "data">>
work_dir == <<"..", "data", "work">>

join(directory, name) == Append(directory, name)

basename(p) == p[Len(p)]

dirname_of(p) == SubSeq(p, 1, Len(p) - 1)

\* p lies below d, at any depth
Below(p, d) == Len(p) > Len(d) /\ SubSeq(p, 1, Len(d)) = d

DirUniverse ==
    { main_folder,
      join(main_folder, "work"),
      join(join(main_folder, "work"), "testcase3"),
      join(main_folder, "testcase1"),
      join(join(main_folder, "testcase1"), "output_cache") }

FileNames ==
    { "log_a", "b.log", "output_c1", "output_test_1",
      "input_a", "output_ref1", "keep.txt" }

Answers == { "y", "n", "Y", "yes", "" }

NotRead == "<not read>"

RECURSIVE UpTo(_, _)
UpTo(S, k) ==
    IF k = 0 THEN { {} }
    ELSE LET smaller == UpTo(S, k - 1)
         IN  smaller \cup { T \cup {x} : T \in smaller, x \in S }

----------------------------------------------------------------------------
(* Library functions the script calls *)

startswith(s, prefix) ==
    Len(s) >= Len(prefix) /\ SubSeq(s, 1, Len(prefix)) = prefix

endswith(s, suffix) ==
    Len(s) >= Len(suffix) /\ SubSeq(s, Len(s) - Len(suffix) + 1, Len(s)) = suffix

\* fnmatch.fnmatch(name, 'testcase*') on a case-sensitive filesystem
fnmatch_testcase(name) == startswith(name, "testcase")

\* the filter left out: every subdirectory is taken for a test case
filter_all(dirnames) == dirnames

\* line 36: fnmatch.filter(dirnames, 'testcase*'), order kept
filter_testcase(dirnames) == SelectSeq(dirnames, fnmatch_testcase)

isfile(p) == p \in files

isdir(p) == p \in dirs

exists(p) == isfile(p) \/ isdir(p)

\* os.listdir(directory): the names of the entries directly inside it
listdir(directory) ==
    { basename(p) : p \in { q \in dirs \cup files :
                              /\ Len(q) = Len(directory) + 1
                              /\ dirname_of(q) = directory } }

\* the subdirectory names os.walk reports for top
subdirs(top) == { n \in listdir(top) : isdir(join(top, n)) }

\* every order in which a directory listing can come back
Orders(S) ==
    { s \in [1..Cardinality(S) -> S] :
        \A i, j \in 1..Cardinality(S) : i # j => s[i] # s[j] }

Reverse(s) == [i \in 1..Len(s) |-> s[Len(s) + 1 - i]]

Line(kind, p) == <<kind, p>>

print(kind, p) == out' = Append(out, Line(kind, p))

----------------------------------------------------------------------------
(* The two deletion rules *)

\* 'output_' in place of 'output_c'
PrimaryRuleAnyOutput(file_path, filename) ==
    isfile(file_path) /\
        ( startswith(filename, "log_") \/
          endswith(filename, ".log") \/
          startswith(filename, "output_") \/
          startswith(filename, "output_test_") )

\* lines 13-18: the condition of delete_files_in_directory
PrimaryRule(file_path, filename) ==
    isfile(file_path) /\
        ( startswith(filename, "log_") \/
          endswith(filename, ".log") \/
          startswith(filename, "output_c") \/
          startswith(filename, "output_test_") )

\* the 'input' prefix forgotten
SecondaryRuleNoInput(file_path, filename) ==
    isfile(file_path) /\ startswith(filename, "output_ref")

\* lines 25-28: the condition of delete_matlab_files_in_directory
SecondaryRule(file_path, filename) ==
    isfile(file_path) /\
        ( startswith(filename, "input") \/
          startswith(filename, "output_ref") )

\* the work-directory loop filtering by name as the tree walk does
WorkRuleByName(file_path, filename) == PrimaryRule(file_path, filename)

\* line 50: the condition of the work-directory loop
WorkRule(file_path, filename) == isfile(file_path)

\* the answer compared without regard to case
AffirmativeAnyCase(answer) == answer \in {"y", "Y"}

\* line 40: delete_matlab_files == 'y'
Affirmative(answer) == answer = "y"

----------------------------------------------------------------------------
(* The filesystems a run can start from *)

Trees ==
    { D \in SUBSET DirUniverse :
        \A d \in D : d # main_folder => dirname_of(d) \in D }

\* In the work directory and in a testcase* directory every name of
\* FileNames may occur; in the other directories two names, one per
\* deletion rule, stand for all of them.
NamesIn(d) ==
    IF d = work_dir \/ fnmatch_testcase(basename(d))
    THEN FileNames
    ELSE { "log_a", "input_a" }

\* The regular files a tree may hold, and a regular file at the work
\* directory's path when no directory is there.
Candidates(D) ==
    { p \in { join(d, n) : d \in D, n \in FileNames } :
        basename(p) \in NamesIn(dirname_of(p)) }
      \cup (IF main_folder \in D /\ work_dir \notin D THEN {work_dir} ELSE {})
      \cup (IF main_folder \in D /\ work_dir \notin D THEN {work_dir} ELSE {})

----------------------------------------------------------------------------
(* The state after the interpreter has executed lines 1-30 *)

Init ==
    /\ dirs \in Trees
    /\ files \in UpTo(Candidates(dirs), MaxFiles)
    /\ pc = "prompt"
    /\ delete_matlab_files = NotRead
    /\ stack = <<>>
    /\ dirpath = <<>>
    /\ matched = <<>>
    /\ full_dir_path = <<>>
    /\ listing = {}
    /\ out = <<>>
    /\ status = "running"
    /\ prompts = 0
    /\ files0 = files
    /\ run = "first"
    /\ first = [files |-> {}, removed |-> FALSE, affirmative |-> FALSE,
                failed |-> FALSE]

----------------------------------------------------------------------------
(* os.remove, unguarded (lines 20 and 30) and guarded (lines 51-55) *)

\* os.remove of the tree walk wrapped in try/except like the work loop's
RemoveUnguardedCaught(file_path, ok) ==
    /\ print("Deleting file", file_path)
    /\ files' = IF ok THEN files \ {file_path} ELSE files
    /\ UNCHANGED <<pc, status>>

\* lines 19-20, 29-30: print, then os.remove; an OSError is not caught and
\* ends the script
RemoveUnguarded(file_path, ok) ==
    /\ print("Deleting file", file_path)
    /\ IF ok
       THEN /\ files' = files \ {file_path}
            /\ UNCHANGED <<pc, status>>
       ELSE /\ pc' = "crashed"
            /\ status' = "OSError"
            /\ UNCHANGED files

\* os.remove of the work loop without its try/except
RemoveGuardedNoTry(file_path, ok) ==
    IF ok
    THEN /\ files' = files \ {file_path}
         /\ print("Deleted file", file_path)
         /\ UNCHANGED <<pc, status>>
    ELSE /\ pc' = "crashed"
         /\ status' = "OSError"
         /\ UNCHANGED <<files, out>>

\* lines 51-55: os.remove inside try/except Exception
RemoveGuarded(file_path, ok) ==
    /\ IF ok
       THEN /\ files' = files \ {file_path}
            /\ print("Deleted file", file_path)
       ELSE /\ print("Failed to delete file", file_path)
            /\ UNCHANGED files
    /\ UNCHANGED <<pc, status>>

----------------------------------------------------------------------------
(* The script, lines 34-57 *)

\* line 34: input()
Prompt ==
    /\ pc = "prompt"
    /\ \E answer \in Answers : delete_matlab_files' = answer
    /\ prompts' = prompts + 1
    /\ stack' = <<main_folder>>
    /\ pc' = "walk"
    /\ UNCHANGED <<dirs, files, dirpath, matched, full_dir_path, listing, out,
                   status, files0, run, first>>

\* line 35: os.walk yields its next triple. A directory that cannot be
\* scanned (it does not exist) is skipped silently. The subdirectories are
\* pushed so that they are visited in listing order, top-down; the loop body
\* never changes dirnames, so pushing them here or on resumption is the same.
WalkNext ==
    /\ pc = "walk"
    /\ stack # <<>>
    /\ LET top  == stack[Len(stack)]
           rest == SubSeq(stack, 1, Len(stack) - 1)
       IN  IF ~isdir(top)
           THEN /\ stack' = rest
                /\ UNCHANGED <<pc, dirpath, matched>>
           ELSE \E dirnames \in Orders(subdirs(top)) :
                  /\ dirpath' = top
                  /\ matched' = filter_testcase(dirnames)
                  /\ stack' = rest \o Reverse([i \in 1..Len(dirnames) |->
                                                 join(top, dirnames[i])])
                  /\ pc' = "dirs"
    /\ UNCHANGED <<dirs, files, delete_matlab_files, full_dir_path, listing,
                   out, status, prompts, files0, run, first>>

\* the work-directory cleanup indented into the walk loop
WalkDoneEarly ==
    /\ pc = "walk"
    /\ pc' = "workcheck"
    /\ UNCHANGED <<dirs, files, delete_matlab_files, stack, dirpath, matched,
                   full_dir_path, listing, out, status, prompts, files0, run,
                   first>>

\* line 35: os.walk is exhausted
WalkDone ==
    /\ pc = "walk"
    /\ stack = <<>>
    /\ pc' = "workcheck"
    /\ UNCHANGED <<dirs, files, delete_matlab_files, stack, dirpath, matched,
                   full_dir_path, listing, out, status, prompts, files0, run,
                   first>>

\* lines 36-39 and 11: next matched name, print, call
\* delete_files_in_directory, which lists the directory
EnterDirectory ==
    /\ pc = "dirs"
    /\ matched # <<>>
    /\ full_dir_path' = join(dirpath, Head(matched))
    /\ matched' = Tail(matched)
    /\ print("Processing directory", full_dir_path')
    /\ listing' = listdir(full_dir_path')
    /\ pc' = "primary"
    /\ UNCHANGED <<dirs, files, delete_matlab_files, stack, dirpath, status,
                   prompts, files0, run, first>>

\* line 36: the inner for loop is over
DirsDone ==
    /\ pc = "dirs"
    /\ matched = <<>>
    /\ pc' = "walk"
    /\ UNCHANGED <<dirs, files, delete_matlab_files, stack, dirpath, matched,
                   full_dir_path, listing, out, status, prompts, files0, run,
                   first>>

\* lines 11-20: one iteration of the loop of delete_files_in_directory
PrimaryStep ==
    /\ pc = "primary"
    /\ \E filename \in listing :
         LET file_path == join(full_dir_path, filename)
         IN  /\ listing' = listing \ {filename}
             /\ IF PrimaryRule(file_path, filename)
                THEN \E ok \in BOOLEAN : RemoveUnguarded(file_path, ok)
                ELSE UNCHANGED <<files, out, pc, status>>
    /\ UNCHANGED <<dirs, delete_matlab_files, stack, dirpath, matched,
                   full_dir_path, prompts, files0, run, first>>

\* lines 40-41 and 23: delete_files_in_directory returned; the secondary
\* rule runs, on a fresh listing, only for the answer 'y'
PrimaryDone ==
    /\ pc = "primary"
    /\ listing = {}
    /\ IF Affirmative(delete_matlab_files)
       THEN /\ listing' = listdir(full_dir_path)
            /\ pc' = "secondary"
       ELSE /\ pc' = "dirs"
            /\ UNCHANGED listing
    /\ UNCHANGED <<dirs, files, delete_matlab_files, stack, dirpath, matched,
                   full_dir_path, out, status, prompts, files0, run, first>>

\* lines 23-30: one iteration of the loop of delete_matlab_files_in_directory
SecondaryStep ==
    /\ pc = "secondary"
    /\ \E filename \in listing :
         LET file_path == join(full_dir_path, filename)
         IN  /\ listing' = listing \ {filename}
             /\ IF SecondaryRule(file_path, filename)
                THEN \E ok \in BOOLEAN : RemoveUnguarded(file_path, ok)
                ELSE UNCHANGED <<files, out, pc, status>>
    /\ UNCHANGED <<dirs, delete_matlab_files, stack, dirpath, matched,
                   full_dir_path, prompts, files0, run, first>>

\* line 41: delete_matlab_files_in_directory returned
SecondaryDone ==
    /\ pc = "secondary"
    /\ listing = {}
    /\ pc' = "dirs"
    /\ UNCHANGED <<dirs, files, delete_matlab_files, stack, dirpath, matched,
                   full_dir_path, listing, out, status, prompts, files0, run,
                   first>>

\* lines 44-46, 56-57: os.path.exists(work_dir), then os.listdir(work_dir),
\* which raises NotADirectoryError when work_dir is a regular file
WorkCheck ==
    /\ pc = "workcheck"
    /\ IF exists(work_dir)
       THEN IF isdir(work_dir)
            THEN /\ listing' = listdir(work_dir)
                 /\ pc' = "work"
                 /\ UNCHANGED <<out, status>>
            ELSE /\ pc' = "crashed"
                 /\ status' = "NotADirectoryError"
                 /\ UNCHANGED <<out, listing>>
       ELSE /\ print("does not exist", work_dir)
            /\ pc' = "done"
            /\ status' = "ok"
            /\ UNCHANGED listing
    /\ UNCHANGED <<dirs, files, delete_matlab_files, stack, dirpath, matched,
                   full_dir_path, prompts, files0, run, first>>

\* the work loop removing subdirectories too, with all they hold
WorkStepRmtree ==
    /\ pc = "work"
    /\ \E filename \in listing :
         LET file_path == join(work_dir, filename)
         IN  /\ listing' = listing \ {filename}
             /\ IF isfile(file_path)
                THEN /\ \E ok \in BOOLEAN : RemoveGuarded(file_path, ok)
                     /\ UNCHANGED dirs
                ELSE /\ dirs' = { d \in dirs : d # file_path /\ ~Below(d, file_path) }
                     /\ files' = { f \in files : ~Below(f, file_path) }
                     /\ print("Deleted file", file_path)
                     /\ UNCHANGED <<pc, status>>
    /\ UNCHANGED <<delete_matlab_files, stack, dirpath, matched,
                   full_dir_path, prompts, files0, run, first>>

\* lines 46-55: one iteration of the work-directory loop
WorkStep ==
    /\ pc = "work"
    /\ \E filename \in listing :
         LET file_path == join(work_dir, filename)
         IN  /\ listing' = listing \ {filename}
             /\ IF WorkRule(file_path, filename)
                THEN \E ok \in BOOLEAN : RemoveGuarded(file_path, ok)
                ELSE UNCHANGED <<files, out, pc, status>>
    /\ UNCHANGED <<dirs, delete_matlab_files, stack, dirpath, matched,
                   full_dir_path, prompts, files0, run, first>>

\* the work loop left before its listing is exhausted
WorkDoneBreak ==
    /\ pc = "work"
    /\ pc' = "done"
    /\ status' = "ok"
    /\ UNCHANGED <<dirs, files, delete_matlab_files, stack, dirpath, matched,
                   full_dir_path, listing, out, prompts, files0, run, first>>

\* line 46: the loop is over and the script ends
WorkDone ==
    /\ pc = "work"
    /\ listing = {}
    /\ pc' = "done"
    /\ status' = "ok"
    /\ UNCHANGED <<dirs, files, delete_matlab_files, stack, dirpath, matched,
                   full_dir_path, listing, out, prompts, files0, run, first>>

Next ==
    \/ Prompt
    \/ WalkNext
    \/ WalkDone
    \/ EnterDirectory
    \/ DirsDone
    \/ PrimaryStep
    \/ PrimaryDone
    \/ SecondaryStep
    \/ SecondaryDone
    \/ WorkCheck
    \/ WorkStep
    \/ WorkDone

Spec == Init /\ [][Next]_vars

----------------------------------------------------------------------------
(* Two invocations in succession *)

Failed(p) == \E i \in 1..Len(out) : out[i] = Line("Failed to delete file", p)

\* some os.remove of this invocation raised
RemovalFailed ==
    status = "OSError" \/ \E i \in 1..Len(out) : out[i][1] = "Failed to delete file"

Ended == pc \in {"done", "crashed"}

\* the script has ended and is started again on the tree it left
Rerun ==
    /\ Ended
    /\ run = "first"
    /\ run' = "second"
    /\ first' = [files |-> files, removed |-> files # files0,
                 affirmative |-> Affirmative(delete_matlab_files),
                 failed |-> RemovalFailed]
    /\ pc' = "prompt"
    /\ delete_matlab_files' = NotRead
    /\ stack' = <<>>
    /\ dirpath' = <<>>
    /\ matched' = <<>>
    /\ full_dir_path' = <<>>
    /\ listing' = {}
    /\ out' = <<>>
    /\ status' = "running"
    /\ prompts' = 0
    /\ files0' = files
    /\ UNCHANGED <<dirs, files>>

NextTwice == Next \/ Rerun

SpecTwice == Init /\ [][NextTwice]_vars

----------------------------------------------------------------------------
(* Vocabulary of the properties *)

TestcaseName(name) == startswith(name, "testcase")

\* a directory at any depth below the root whose base name matches testcase*
MatchedDirectory(d) ==
    d \in dirs /\ Below(d, main_folder) /\ TestcaseName(basename(d))

PrimaryName(name) ==
    \/ startswith(name, "log_")
    \/ endswith(name, ".log")
    \/ startswith(name, "output_c")
    \/ startswith(name, "output_test_")

SecondaryName(name) ==
    startswith(name, "input") \/ startswith(name, "output_ref")

Printed(kind, p) == \E i \in 1..Len(out) : out[i] = Line(kind, p)

Kinds == { out[i][1] : i \in 1..Len(out) }

\* the regular files directly inside the work directory when the run started
WorkFiles0 == { f \in files0 : dirname_of(f) = work_dir }

\* the files of matched directories, present at the start, that only the
\* secondary rule names
SecondaryOnly0 ==
    { f \in files0 : /\ MatchedDirectory(dirname_of(f))
                     /\ SecondaryName(basename(f))
                     /\ ~PrimaryName(basename(f)) }

Removed == files \ files'

----------------------------------------------------------------------------
(* C1 *)

\* C1: after a run in which no removal failed, a regular file that was
\* directly inside a matched directory at the start has been deleted if and
\* only if its name satisfies a primary predicate, or the answer was 'y' and
\* its name satisfies a secondary predicate.
C1_DeletedIffRuleNamesIt ==
    (Ended /\ ~RemovalFailed) =>
        \A f \in files0 :
            MatchedDirectory(dirname_of(f)) =>
                ( f \notin files <=>
                    \/ PrimaryName(basename(f))
                    \/ delete_matlab_files = "y" /\ SecondaryName(basename(f)) )

C1_Witness ==
    /\ pc = "done"
    /\ ~RemovalFailed
    /\ delete_matlab_files = "y"
    /\ \E f, g \in files0 :
         /\ MatchedDirectory(dirname_of(f)) /\ MatchedDirectory(dirname_of(g))
         /\ SecondaryName(basename(f)) /\ f \notin files
         /\ g \in files

----------------------------------------------------------------------------
(* C2 *)

\* C2 as stated: no step removes a file whose containing directory has a
\* base name that does not match testcase*, the work directory included.
C2_NoRemovalOutsideTestcase ==
    [][\A f \in Removed : TestcaseName(basename(dirname_of(f)))]_vars

\* C2 amended: the only files removed from a directory whose base name does
\* not match testcase* are the regular files directly inside the work
\* directory, removed by the work-directory phase; the tree walk processes
\* testcase* directories only.
C2_OnlyWorkDirOutsideTestcase ==
    /\ [][\A f \in Removed :
            \/ TestcaseName(basename(dirname_of(f)))
            \/ pc = "work" /\ dirname_of(f) = work_dir]_vars
    /\ [](\A i \in 1..Len(out) :
            out[i][1] = "Processing directory" => TestcaseName(basename(out[i][2])))

C2_Witness ==
    /\ pc = "done"
    /\ files # files0
    /\ \E f \in files :
         /\ ~TestcaseName(basename(dirname_of(f)))
         /\ dirname_of(f) # work_dir
         /\ PrimaryName(basename(f))

----------------------------------------------------------------------------
(* C3 *)

\* C3 as stated: no directory below the work directory is removed, and no
\* file inside a subdirectory of the work directory is removed by any phase.
C3_NothingBelowWorkSubdirs ==
    [][/\ \A d \in dirs \ dirs' : ~Below(d, work_dir)
       /\ \A f \in Removed : ~Below(dirname_of(f), work_dir)]_vars

\* C3 amended: no directory below the work directory is removed and the
\* work-directory phase removes no file inside a subdirectory of it; the
\* tree walk, which descends into the work directory, removes such a file
\* only when its directory's base name matches testcase* and its name
\* satisfies the rule being applied.
C3_WorkSubdirsOnlyByTreeWalk ==
    [][/\ \A d \in dirs \ dirs' : ~Below(d, work_dir)
       /\ \A f \in Removed :
            Below(dirname_of(f), work_dir) =>
                /\ TestcaseName(basename(dirname_of(f)))
                /\ \/ pc = "primary" /\ PrimaryName(basename(f))
                   \/ /\ pc = "secondary"
                      /\ delete_matlab_files = "y"
                      /\ SecondaryName(basename(f))]_vars

C3_Witness ==
    /\ pc = "done"
    /\ isdir(work_dir)
    /\ \E f \in files0 \ files : Below(dirname_of(f), work_dir)
    /\ \E g \in files : Below(dirname_of(g), work_dir)

----------------------------------------------------------------------------
(* C4 *)

\* C4 as stated: when the work-directory phase has run, every regular file
\* that was directly inside the work directory has been deleted.
C4_EveryWorkFileDeleted ==
    (pc = "done" /\ isdir(work_dir)) => \A f \in WorkFiles0 : f \notin files

\* C4 amended: an entry directly inside the work directory is deleted by
\* the work-directory phase if and only if it is a regular file whose
\* removal does not fail, whatever its name; subdirectories are kept, and a
\* regular file whose removal raises is kept.
C4_WorkFileDeletedUnlessRemovalFails ==
    /\ [](pc = "done" /\ isdir(work_dir) =>
            \A f \in WorkFiles0 : f \notin files <=> ~Failed(f))
    /\ [][pc = "work" => dirs' = dirs]_vars

C4_Witness ==
    /\ pc = "done"
    /\ \E d \in dirs : dirname_of(d) = work_dir
    /\ \E f \in WorkFiles0 :
         /\ f \notin files
         /\ ~PrimaryName(basename(f))
         /\ ~SecondaryName(basename(f))

----------------------------------------------------------------------------
(* C5 *)

\* C5 as stated: the second of two runs in succession deletes nothing.
C5_SecondRunDeletesNothing ==
    run = "second" => files = first.files

\* C5 amended: the second run deletes nothing provided no removal failed
\* during the first run and the second run's answer is 'y' only if the
\* first run's was.
C5_SecondRunDeletesNothingSameAnswer ==
    ( /\ run = "second"
      /\ ~first.failed
      /\ (delete_matlab_files = "y" => first.affirmative) ) =>
        files = first.files

C5_Witness ==
    /\ run = "second"
    /\ pc = "done"
    /\ first.removed
    /\ ~first.failed
    /\ first.affirmative
    /\ delete_matlab_files = "y"
    /\ \E f \in files : MatchedDirectory(dirname_of(f))
    /\ Printed("Processing directory", join(main_folder, "testcase1"))

----------------------------------------------------------------------------
(* C6 *)

\* C6: a failed removal in the work-directory phase is reported and the
\* loop goes on: the phase never ends in an exception, and when the script
\* is done every regular file of the work directory has been attempted,
\* deleted when its removal succeeded and kept and reported when it failed.
C6_WorkFailureDoesNotStopLoop ==
    /\ [][pc = "work" => pc' \in {"work", "done"} /\ status' \in {"running", "ok"}]_vars
    /\ [](pc = "done" /\ isdir(work_dir) =>
            /\ status = "ok"
            /\ \A f \in WorkFiles0 :
                 /\ Printed("Deleted file", f) \/ Failed(f)
                 /\ Printed("Deleted file", f) => f \notin files
                 /\ Failed(f) => f \in files)

C6_Witness ==
    /\ pc = "done"
    /\ status = "ok"
    /\ \E i, j \in 1..Len(out) :
         /\ i < j
         /\ out[i][1] = "Failed to delete file"
         /\ out[j][1] = "Deleted file"
         /\ out[i][2] \in files
         /\ out[j][2] \notin files

----------------------------------------------------------------------------
(* C7 *)

\* the tree walk printed that it deletes a file and the file is still there
TreeRemovalFailed ==
    \E i \in 1..Len(out) : out[i][1] = "Deleting file" /\ out[i][2] \in files

\* C7: a failed removal in the tree walk halts the run: the script has
\* ended with the uncaught OSError, the announcement of the failed removal
\* is the last thing it printed, the work-directory cleanup never ran, and
\* no step follows.
C7_TreeFailureHaltsRun ==
    /\ [](TreeRemovalFailed =>
            /\ pc = "crashed"
            /\ status = "OSError"
            /\ out[Len(out)][1] = "Deleting file"
            /\ out[Len(out)][2] \in files
            /\ Kinds \subseteq {"Processing directory", "Deleting file"})
    /\ [][pc # "crashed"]_vars

C7_Witness ==
    /\ pc = "crashed"
    /\ status = "OSError"
    /\ TreeRemovalFailed
    /\ \E f \in files : dirname_of(f) = work_dir
    /\ isdir(work_dir)

----------------------------------------------------------------------------
(* C8 *)

\* C8 as stated: when the run has ended, a file of a matched directory that
\* only the secondary rule names has been deleted if and only if the answer
\* was exactly 'y'.
C8_SecondaryIffAnswerY ==
    Ended => \A f \in SecondaryOnly0 : f \notin files <=> delete_matlab_files = "y"

\* C8 amended: for every answer other than exactly 'y' such a file is
\* retained; with the answer 'y' it has been deleted when the run ends,
\* unless a failed removal halted the tree walk.
C8_SecondaryIffAnswerYUnlessHalted ==
    \A f \in SecondaryOnly0 :
        /\ delete_matlab_files # "y" => f \in files
        /\ (Ended /\ status # "OSError" /\ delete_matlab_files = "y") => f \notin files

C8_Witness ==
    /\ pc = "done"
    /\ delete_matlab_files = "y"
    /\ SecondaryOnly0 # {}
    /\ SecondaryOnly0 \cap files = {}

----------------------------------------------------------------------------
(* C9 *)

\* C9: every step leaves the set of directories unchanged and creates or
\* renames no file: the files after the step are the files before it, less
\* at most one.
C9_OnlyRemovesRegularFiles ==
    [][/\ dirs' = dirs
       /\ files' \subseteq files
       /\ Cardinality(Removed) <= 1]_vars

C9_Witness ==
    /\ pc = "done"
    /\ \E f \in files0 \ files : dirname_of(f) = work_dir
    /\ \E d \in dirs : dirname_of(d) = work_dir
    /\ \E f \in files0 \ files : MatchedDirectory(dirname_of(f))

----------------------------------------------------------------------------
(* C10 *)

Rank(p) ==
    CASE p = "prompt" -> 0
      [] p \in {"walk", "dirs", "primary", "secondary"} -> 1
      [] p \in {"workcheck", "work"} -> 2
      [] p \in {"done", "crashed"} -> 3

\* C10: the prompt is read once and before anything is deleted or printed;
\* the work-directory phase starts only when every matched directory has
\* been processed; within a matched directory no file that only the
\* secondary rule names is deleted before a file the primary rule names; no
\* directory is processed twice and the script never goes back to an
\* earlier phase.
C10_SingleForwardSequence ==
    /\ [](/\ prompts <= 1
          /\ pc = "prompt" <=> prompts = 0
          /\ (files # files0 \/ out # <<>>) => prompts = 1)
    /\ [](Rank(pc) = 2 \/ Kinds \cap {"Deleted file", "Failed to delete file"} # {} =>
            \A d \in dirs : MatchedDirectory(d) => Printed("Processing directory", d))
    /\ [](\A i, j \in 1..Len(out) :
            ( /\ i < j
              /\ out[i][1] = "Deleting file"
              /\ out[j][1] = "Deleting file"
              /\ dirname_of(out[i][2]) = dirname_of(out[j][2]) ) =>
                ~( /\ ~PrimaryName(basename(out[i][2]))
                   /\ PrimaryName(basename(out[j][2])) ))
    /\ [](\A i, j \in 1..Len(out) :
            (i # j /\ out[i][1] = "Processing directory") => out[i] # out[j])
    /\ [][Rank(pc') >= Rank(pc)]_vars

C10_Witness ==
    /\ pc = "done"
    /\ prompts = 1
    /\ \E i, j \in 1..Len(out) :
         /\ i < j
         /\ out[i][1] = "Deleting file"
         /\ PrimaryName(basename(out[i][2]))
         /\ out[j][1] = "Deleting file"
         /\ ~PrimaryName(basename(out[j][2]))
         /\ dirname_of(out[i][2]) = dirname_of(out[j][2])

====
